---- MODULE Spec2Model ----
(***************************************************************************)
(* Word-level model of mm.c (segregated free list allocator with boundary  *)
(* tags).  The heap is a sparse map from byte addresses of 4-byte words to *)
(* the 32-bit values the allocator stored there; every macro and function  *)
(* of mm.c is an operator over a heap record h:                            *)
(*   h.w     the words written so far (address -> value)                   *)
(*   h.lo    mem_heap, first byte of the region owned by memlib            *)
(*   h.brk   mem_brk, one past the last byte obtained from mem_sbrk        *)
(*   h.max   mem_max_addr, the limit beyond which mem_sbrk fails           *)
(*   h.lp    heap_listp                                                    *)
(*   h.fill  the content of a word that was never written (indeterminate)  *)
(*   h.st    "ok", "fault" (store outside the region) or "hang" (a list    *)
(*           walk that revisits a node and therefore never ends)           *)
(*   h.fail  TRUE once mem_sbrk has refused a request                      *)
(* Words are 32-bit two's-complement values; a negative integer stands for *)
(* the unsigned value 2^32 larger.                                         *)
(***************************************************************************)
EXTENDS Integers, Sequences, FiniteSets, TLC

NULL == 0

ALIGNMENT == 8
WSIZE == 4
DSIZE == 8
CHUNKSIZE == 4096
\* an even number of classes leaves the first payload on a 4 mod 8 address
MAXCLASS_EVEN == 2 * 7
MAXCLASS == 15
SPLIT_LOW_LIMIT == 96
INT_MAX == 2147483647

(* ---------------- bounds of the exploration ---------------- *)
MaxOps == 4
MemStarts == {8}
HeapLimits == {64, 72, 4168, 73800}
\* what a word that was never written may hold: zero, a lone allocated bit, or
\* a word that reads as the header of an allocated block of 8 bytes
Indeterminate == {0, 1, 9}
MallocSizes == {0, 8, 100, 4097, 32760}
ReallocSizes == {0, 100, 4097}
MaxOpsDeep == 6
DeepLimit == 73800
DeepMallocSizes == {8, 100}
DeepReallocSizes == {4097}

(* ---------------- macros ---------------- *)
ALIGN(size) == (size + (ALIGNMENT - 1)) - ((size + (ALIGNMENT - 1)) % 8)

MAX(x, y) == IF x > y THEN x ELSE y

\* size | alloc for alloc in {0, 1}
PACK(size, alloc) == IF size % 2 = 1 THEN size ELSE size + alloc

\* unsigned a < b on two's-complement representatives
ULT(a, b) == IF (a < 0) = (b < 0) THEN a < b ELSE b < 0

\* unsigned a >> 1
LSR1(a) == IF a >= 0 THEN a \div 2 ELSE INT_MAX + ((a \div 2) + 1)

GET(h, p) == IF p \in DOMAIN h.w THEN h.w[p] ELSE h.fill

PUT(h, p, val) ==
    IF h.st # "ok" THEN h
    ELSE IF p % WSIZE = 0 /\ p >= h.lo /\ p < h.brk
         THEN [h EXCEPT !.w = [a \in (DOMAIN h.w) \cup {p} |->
                                   IF a = p THEN val ELSE h.w[a]]]
         ELSE [h EXCEPT !.st = "fault"]

PUT_P(h, p, p_to) == PUT(h, p, p_to)

GET_SIZE(h, p) == GET(h, p) - (GET(h, p) % 8)
GET_ALLOC(h, p) == GET(h, p) % 2

HDRP(bp) == bp - WSIZE
FTRP(h, bp) == bp + GET_SIZE(h, HDRP(bp)) - DSIZE

NEXT_BLKP(h, bp) == bp + GET_SIZE(h, bp - WSIZE)
PREV_BLKP(h, bp) == bp - GET_SIZE(h, bp - DSIZE)

PRED_PTR(bp) == bp
SUCC_PTR(bp) == bp + WSIZE

PRED(h, bp) == GET(h, bp)
SUCC(h, bp) == GET(h, SUCC_PTR(bp))

(* ---------------- memlib ---------------- *)
\* mem_sbrk: extend the region by incr bytes, or refuse and return -1
mem_sbrk(h, incr) ==
    IF incr < 0 \/ h.brk + incr > h.max
    THEN [h |-> [h EXCEPT !.fail = TRUE], p |-> -1]
    ELSE [h |-> [h EXCEPT !.brk = @ + incr], p |-> h.brk]

(* ---------------- size classes ---------------- *)
\* while ((size > 1) && (class_idx < MAXCLASS - 1)) { size >>= 1; class_idx++; }
RECURSIVE ClassLoop(_, _)
ClassLoop(size, class_idx) ==
    IF ULT(1, size) /\ class_idx < MAXCLASS - 1
    THEN ClassLoop(LSR1(size), class_idx + 1)
    ELSE [size |-> size, class_idx |-> class_idx]

\* class_ptr = heap_listp + class_idx * WSIZE
ClassPtr(h, class_idx) == h.lp + class_idx * WSIZE

(* ---------------- stores used by several functions ---------------- *)
\* PUT(HDRP(bp), val)
PutHdr(h, bp, val) == PUT(h, HDRP(bp), val)
\* PUT(FTRP(bp), val): the footer address follows the header as it is now
PutFtr(h, bp, val) == PUT(h, FTRP(h, bp), val)
\* PUT(HDRP(NEXT_BLKP(bp)), val)
PutHdrNext(h, bp, val) == PUT(h, HDRP(NEXT_BLKP(h, bp)), val)
\* PUT(FTRP(NEXT_BLKP(bp)), val)
PutFtrNext(h, bp, val) == PUT(h, FTRP(h, NEXT_BLKP(h, bp)), val)
\* PUT(HDRP(PREV_BLKP(bp)), val)
PutHdrPrev(h, bp, val) == PUT(h, HDRP(PREV_BLKP(h, bp)), val)

(* ---------------- insert_list ---------------- *)
\* while (current_ptr != NULL && size > GET_SIZE(HDRP(current_ptr)))
RECURSIVE InsertPos(_, _, _, _, _)
InsertPos(h, size, current_ptr, last_ptr, seen) ==
    IF current_ptr \in seen
    THEN [last |-> last_ptr, cur |-> current_ptr, hang |-> TRUE]
    ELSE IF current_ptr # NULL /\ ULT(GET_SIZE(h, HDRP(current_ptr)), size)
         THEN InsertPos(h, size, SUCC(h, current_ptr), current_ptr,
                        seen \cup {current_ptr})
         ELSE [last |-> last_ptr, cur |-> current_ptr, hang |-> FALSE]

\* PUT_P(PRED_PTR(bp), last_ptr); PUT_P(SUCC_PTR(bp), current_ptr);
InsertLinkSelf(h, bp, pos) ==
    PUT_P(PUT_P(h, PRED_PTR(bp), pos.last), SUCC_PTR(bp), pos.cur)

\* if (current_ptr != NULL) PUT_P(PRED_PTR(current_ptr), bp);
InsertLinkSucc(h, bp, pos) ==
    IF pos.cur # NULL THEN PUT_P(h, PRED_PTR(pos.cur), bp) ELSE h

\* if (last_ptr != NULL) PUT_P(SUCC_PTR(last_ptr), bp); else PUT_P(class_ptr, bp);
InsertLinkPred(h, bp, class_ptr, pos) ==
    IF pos.last # NULL THEN PUT_P(h, SUCC_PTR(pos.last), bp)
    ELSE PUT_P(h, class_ptr, bp)

InsertAt(h, bp, class_ptr, pos) ==
    IF pos.hang THEN [h EXCEPT !.st = "hang"]
    ELSE InsertLinkPred(InsertLinkSucc(InsertLinkSelf(h, bp, pos), bp, pos),
                        bp, class_ptr, pos)

\* c is what the class loop leaves: the class index and the shifted `size',
\* which is the value the position search then compares with the block sizes
InsertInClass(h, bp, c) ==
    InsertAt(h, bp, ClassPtr(h, c.class_idx),
             InsertPos(h, c.size, GET(h, ClassPtr(h, c.class_idx)), NULL, {}))

insert_list(h, bp, size) ==
    IF h.st # "ok" THEN h ELSE InsertInClass(h, bp, ClassLoop(size, 0))

(* ---------------- remove_list ---------------- *)
\* if (PRED(bp) != NULL) PUT_P(SUCC_PTR(PRED(bp)), SUCC(bp));
\* else PUT_P(class_ptr, SUCC(bp));
RemoveLinkPred(h, bp) ==
    IF PRED(h, bp) # NULL
    THEN PUT_P(h, SUCC_PTR(PRED(h, bp)), SUCC(h, bp))
    ELSE PUT_P(h, ClassPtr(h, ClassLoop(GET_SIZE(h, HDRP(bp)), 0).class_idx),
               SUCC(h, bp))

\* if (SUCC(bp) != NULL) PUT_P(PRED_PTR(SUCC(bp)), PRED(bp));
RemoveLinkSucc(h, bp) ==
    IF SUCC(h, bp) # NULL THEN PUT_P(h, PRED_PTR(SUCC(h, bp)), PRED(h, bp)) ELSE h

remove_list(h, bp) == RemoveLinkSucc(RemoveLinkPred(h, bp), bp)

(* ---------------- coalesce ---------------- *)
\* remove_list(NEXT_BLKP(bp))
RemoveNext(h, bp) == remove_list(h, NEXT_BLKP(h, bp))
\* remove_list(PREV_BLKP(bp))
RemovePrev(h, bp) == remove_list(h, PREV_BLKP(h, bp))

\* Case 2, after remove_list(NEXT_BLKP(bp))
CoalesceNext(h, bp, size0) ==
    LET size == size0 + GET_SIZE(h, HDRP(NEXT_BLKP(h, bp)))
    IN [h |-> PutFtr(PutHdr(h, bp, PACK(size, 0)), bp, PACK(size, 0)),
        bp |-> bp, size |-> size]

\* bp = PREV_BLKP(bp)
StepToPrev(h, bp, size) == [h |-> h, bp |-> PREV_BLKP(h, bp), size |-> size]

\* Case 3, after remove_list(PREV_BLKP(bp))
CoalescePrev(h, bp, size0) ==
    LET size == size0 + GET_SIZE(h, HDRP(PREV_BLKP(h, bp)))
    IN StepToPrev(PutHdrPrev(PutFtr(h, bp, PACK(size, 0)), bp, PACK(size, 0)),
                  bp, size)

\* Case 4, after both remove_list calls
CoalesceBoth(h, bp, size0) ==
    LET size == size0 + GET_SIZE(h, HDRP(PREV_BLKP(h, bp)))
                      + GET_SIZE(h, HDRP(NEXT_BLKP(h, bp)))
    IN StepToPrev(PutFtrNext(PutHdrPrev(h, bp, PACK(size, 0)), bp, PACK(size, 0)),
                  bp, size)

\* the four cases, up to the insert_list call that ends coalesce
CoalesceCases(h, bp, size, prev_alloc, next_alloc) ==
    IF prev_alloc = 1 /\ next_alloc = 1 THEN                    \* Case 1
        [h |-> h, bp |-> bp, size |-> size]
    ELSE IF prev_alloc = 1 /\ next_alloc = 0 THEN               \* Case 2
        CoalesceNext(RemoveNext(h, bp), bp, size)
    ELSE IF prev_alloc = 0 /\ next_alloc = 1 THEN               \* Case 3
        CoalescePrev(RemovePrev(h, bp), bp, size)
    ELSE                                                        \* Case 4
        CoalesceBoth(RemoveNext(RemovePrev(h, bp), bp), bp, size)

\* insert_list(bp, size); return bp;
CoalesceInsert(m) == [h |-> insert_list(m.h, m.bp, m.size), bp |-> m.bp]

coalesce(h, bp, size) ==
    CoalesceInsert(CoalesceCases(h, bp, size,
                                 GET_ALLOC(h, HDRP(PREV_BLKP(h, bp))),
                                 GET_ALLOC(h, HDRP(NEXT_BLKP(h, bp)))))

(* ---------------- extend_heap ---------------- *)
\* the three stores of extend_heap into the span m.p that mem_sbrk returned
ExtendWrite(h, bp, size) ==
    PutHdrNext(PutFtr(PutHdr(h, bp, PACK(size, 0)), bp, PACK(size, 0)), bp, PACK(0, 1))

\* extend_heap without the test of mem_sbrk's result
ExtendWith_unchecked(m, size) == coalesce(ExtendWrite(m.h, m.p, size), m.p, size)

ExtendWith(m, size) ==
    IF m.p = -1 THEN [h |-> m.h, bp |-> NULL]
    ELSE coalesce(ExtendWrite(m.h, m.p, size), m.p, size)

extend_heap(h, size) == ExtendWith(mem_sbrk(h, ALIGN(size)), ALIGN(size))

(* ---------------- place ---------------- *)
\* remain < 2 * DSIZE: the whole block
PlaceWhole(h, bp, csize) ==
    [h |-> PutFtr(PutHdr(h, bp, PACK(csize, 1)), bp, PACK(csize, 1)), bp |-> bp]

\* insert_list(NEXT_BLKP(bp), remain);
InsertNext(h, bp, size) == insert_list(h, NEXT_BLKP(h, bp), size)

\* asize < 96: allocated piece first, free remainder behind it
PlaceLow(h, bp, asize, remain) ==
    [h |-> InsertNext(
               PutFtrNext(
                   PutHdrNext(
                       PutFtr(PutHdr(h, bp, PACK(asize, 1)), bp, PACK(asize, 1)),
                       bp, PACK(remain, 0)),
                   bp, PACK(remain, 0)),
               bp, remain),
     bp |-> bp]

\* bp = NEXT_BLKP(bp); PUT(HDRP(bp), PACK(asize, 1)); PUT(FTRP(bp), PACK(asize, 1));
PlaceBehind(h, bp, asize) ==
    [h |-> PutFtr(PutHdr(h, NEXT_BLKP(h, bp), PACK(asize, 1)),
                  NEXT_BLKP(h, bp), PACK(asize, 1)),
     bp |-> NEXT_BLKP(h, bp)]

\* otherwise: free remainder first, allocated piece behind it
PlaceHigh(h, bp, asize, remain) ==
    PlaceBehind(insert_list(PutFtr(PutHdr(h, bp, PACK(remain, 0)), bp, PACK(remain, 0)),
                            bp, remain),
                bp, asize)

\* a split that always puts the allocated piece first
PlaceSplit_lowfirst(h, bp, asize, csize) ==
    IF ULT(csize - asize, 2 * DSIZE) THEN PlaceWhole(h, bp, csize)
    ELSE PlaceLow(h, bp, asize, csize - asize)

\* place after remove_list(bp); csize was read before it
PlaceSplit(h, bp, asize, csize) ==
    IF ULT(csize - asize, 2 * DSIZE) THEN PlaceWhole(h, bp, csize)
    ELSE IF ULT(asize, SPLIT_LOW_LIMIT) THEN PlaceLow(h, bp, asize, csize - asize)
    ELSE PlaceHigh(h, bp, asize, csize - asize)

place(h, bp, asize) ==
    PlaceSplit(remove_list(h, bp), bp, asize, GET_SIZE(h, HDRP(bp)))

(* ---------------- find_fit ---------------- *)
\* while ((bp != NULL) && (asize > GET_SIZE(HDRP(bp)))) bp = SUCC(bp);
RECURSIVE ScanList(_, _, _, _)
ScanList(h, asize, bp, seen) ==
    IF bp \in seen THEN [bp |-> bp, hang |-> TRUE]
    ELSE IF bp # NULL /\ ULT(GET_SIZE(h, HDRP(bp)), asize)
         THEN ScanList(h, asize, SUCC(h, bp), seen \cup {bp})
         ELSE [bp |-> bp, hang |-> FALSE]

\* while (class_idx < MAXCLASS) { ...; size >>= 1; class_idx++; }
RECURSIVE FitLoop(_, _, _, _)
FitLoop(h, asize, size, class_idx) ==
    IF class_idx >= MAXCLASS THEN [bp |-> NULL, hang |-> FALSE]
    ELSE IF ~ULT(1, size) /\ GET(h, ClassPtr(h, class_idx)) # NULL
         THEN LET r == ScanList(h, asize, GET(h, ClassPtr(h, class_idx)), {})
              IN IF r.hang \/ r.bp # NULL THEN r
                 ELSE FitLoop(h, asize, LSR1(size), class_idx + 1)
         ELSE FitLoop(h, asize, LSR1(size), class_idx + 1)

find_fit(h, asize) == FitLoop(h, asize, asize, 0)

(* ---------------- mm_init ---------------- *)
RECURSIVE InitClasses(_, _)
InitClasses(h, i) ==
    IF i < MAXCLASS THEN InitClasses(PUT_P(h, h.lp + (i * WSIZE), NULL), i + 1)
    ELSE h

\* PUT(heap_listp + offset, val)
PutAtList(h, offset, val) == PUT(h, h.lp + offset, val)

\* prologue header, prologue footer, epilogue header
InitSentinels(h) ==
    PutAtList(PutAtList(PutAtList(h, MAXCLASS * WSIZE, PACK(DSIZE, 1)),
                        (1 + MAXCLASS) * WSIZE, PACK(DSIZE, 1)),
              (2 + MAXCLASS) * WSIZE, PACK(0, 1))

\* if (extend_heap(CHUNKSIZE) == NULL) return -1; return 0;
InitExtended(e) == [h |-> e.h, ret |-> IF e.bp = NULL THEN -1 ELSE 0]

\* heap_listp = mem_sbrk(...), then the rest of mm_init
InitWith(m) ==
    IF m.p = -1 THEN [h |-> [m.h EXCEPT !.lp = -1], ret |-> -1]
    ELSE InitExtended(extend_heap(InitSentinels(InitClasses([m.h EXCEPT !.lp = m.p], 0)),
                                  CHUNKSIZE))

mm_init(h) == InitWith(mem_sbrk(h, (3 + MAXCLASS) * WSIZE))

(* ---------------- mm_malloc ---------------- *)
\* the adjusted block size of a request
AdjustedSize(size) == IF size <= DSIZE THEN 2 * DSIZE ELSE ALIGN(size + DSIZE)

\* return place(bp, asize);
MallocPlaced(r) == [h |-> r.h, ret |-> r.bp]

\* if ((bp = extend_heap(extendsize)) == NULL) return NULL; return place(bp, asize);
MallocExtended(e, asize) ==
    IF e.bp = NULL THEN [h |-> e.h, ret |-> NULL]
    ELSE MallocPlaced(place(e.h, e.bp, asize))

\* f is what find_fit returned
MallocFit(h, asize, f) ==
    IF f.hang THEN [h |-> [h EXCEPT !.st = "hang"], ret |-> NULL]
    ELSE IF f.bp # NULL THEN MallocPlaced(place(h, f.bp, asize))
    ELSE MallocExtended(extend_heap(h, MAX(asize, CHUNKSIZE)), asize)

mm_malloc(h, size) ==
    IF size = 0 THEN [h |-> h, ret |-> NULL]
    ELSE MallocFit(h, AdjustedSize(size), find_fit(h, AdjustedSize(size)))

(* ---------------- mm_free ---------------- *)
FreeBlock(h, bp, size) ==
    coalesce(PutFtr(PutHdr(h, bp, PACK(size, 0)), bp, PACK(size, 0)), bp, size).h

mm_free(h, bp) == FreeBlock(h, bp, GET_SIZE(h, HDRP(bp)))

(* ---------------- mm_realloc ---------------- *)
\* memcpy(dst, src, n) over the words of the heap; a word never written stays so
memcpy(h, dst, src, n) ==
    LET copied == {a \in DOMAIN h.w : a >= src /\ a < src + n}
        erased == {a \in DOMAIN h.w : a >= dst /\ a < dst + n}
        dom    == ((DOMAIN h.w) \ erased) \cup {a - src + dst : a \in copied}
    IN IF h.st # "ok" THEN h
       ELSE IF n < 0 \/ dst < h.lo \/ dst + n > h.brk THEN [h EXCEPT !.st = "fault"]
       ELSE [h EXCEPT !.w = [x \in dom |-> IF (x - dst + src) \in copied
                                           THEN h.w[x - dst + src] ELSE h.w[x]]]

\* The results of mm_realloc carry, beside the heap and the pointer returned,
\* path: the branch taken ("zero", "fits", "inplace" or "fallback"), and
\* nullstore: TRUE when mm_malloc returned NULL on the fallback path, where
\* memcpy(NULL, ptr, n) stores through the null pointer before mm_free runs;
\* the heap returned is then the one of a run in which that store was lost.

\* remove_list(NEXT_BLKP(ptr)); PUT(HDRP(ptr), ...); PUT(FTRP(ptr), ...);
ReallocAbsorb(h, ptr, newsize) ==
    [h |-> PutFtr(PutHdr(RemoveNext(h, ptr), ptr, PACK(newsize, 1)),
                  ptr, PACK(newsize, 1)),
     ret |-> ptr, path |-> "inplace", nullstore |-> FALSE]

\* if (extend_heap(...) == NULL) return NULL; remain += MAX(-remain, CHUNKSIZE);
ReallocExtended(e, ptr, size, remain) ==
    IF e.bp = NULL
    THEN [h |-> e.h, ret |-> NULL, path |-> "inplace", nullstore |-> FALSE]
    ELSE ReallocAbsorb(e.h, ptr, size + remain)

\* remain = GET_SIZE(HDRP(ptr)) + GET_SIZE(HDRP(NEXT_BLKP(ptr))) - size, an int
ReallocInPlace(h, ptr, size, remain) ==
    IF remain < 0
    THEN ReallocExtended(extend_heap(h, MAX(-remain, CHUNKSIZE)), ptr, size,
                         remain + MAX(-remain, CHUNKSIZE))
    ELSE ReallocAbsorb(h, ptr, size + remain)

\* memcpy(newptr, ptr, GET_SIZE(HDRP(ptr)));
ReallocCopy(m, ptr) ==
    IF m.ret = NULL THEN m.h
    ELSE memcpy(m.h, m.ret, ptr, GET_SIZE(m.h, HDRP(ptr)))

\* m is what mm_malloc(size) returned: copy, mm_free(ptr), return newptr
ReallocMove(m, ptr) ==
    [h |-> mm_free(ReallocCopy(m, ptr), ptr), ret |-> m.ret, path |-> "fallback",
     nullstore |-> (m.h.st = "ok" /\ m.ret = NULL)]

\* the fit test with a strict comparison
ReallocFits_strict(h, ptr, size) == GET_SIZE(h, HDRP(ptr)) - size > 0

\* (remain = GET_SIZE(HDRP(ptr)) - size) >= 0
ReallocFits(h, ptr, size) == GET_SIZE(h, HDRP(ptr)) - size >= 0

\* size is the adjusted size
ReallocAdjusted(h, ptr, size) ==
    IF ReallocFits(h, ptr, size) THEN
        [h |-> h, ret |-> ptr, path |-> "fits", nullstore |-> FALSE]
    ELSE IF \/ GET_ALLOC(h, HDRP(NEXT_BLKP(h, ptr))) = 0
            \/ GET_SIZE(h, HDRP(NEXT_BLKP(h, ptr))) = 0 THEN
        ReallocInPlace(h, ptr, size,
                       GET_SIZE(h, HDRP(ptr)) + GET_SIZE(h, HDRP(NEXT_BLKP(h, ptr))) - size)
    ELSE ReallocMove(mm_malloc(h, size), ptr)

\* a reallocate that releases the block when the new size is zero
mm_realloc_releasing(h, ptr, size) ==
    IF size = 0
    THEN [h |-> mm_free(h, ptr), ret |-> NULL, path |-> "zero", nullstore |-> FALSE]
    ELSE ReallocAdjusted(h, ptr, AdjustedSize(size))

mm_realloc(h, ptr, size) ==
    IF size = 0 THEN [h |-> h, ret |-> NULL, path |-> "zero", nullstore |-> FALSE]
    ELSE ReallocAdjusted(h, ptr, AdjustedSize(size))

(* ======================= the state machine ======================= *)
VARIABLES
    mem,            \* the words of the heap region: address -> 32-bit value
    mem_heap,       \* memlib: first byte of the region
    mem_brk,        \* memlib: one past the last byte handed out
    mem_max_addr,   \* memlib: mem_sbrk refuses to go beyond this address
    heap_listp,     \* mm.c: base of the size class table
    fill,           \* content of every word that was never written
    status,         \* "uninit", "initfail", "ready", "fault" or "hang"
    live,           \* pointers returned to the caller and not yet released
    call,           \* the last public call: [op, ptr, size, fail, path]; size is
                    \* the request, or for free the size of the released block
    ret,            \* what the last public call returned
    pre,            \* the heap just before the last public call
    ops             \* number of allocate/free/reallocate calls made

vars == <<mem, mem_heap, mem_brk, mem_max_addr, heap_listp, fill, status,
          live, call, ret, pre, ops>>

Heap == [w |-> mem, lo |-> mem_heap, brk |-> mem_brk, max |-> mem_max_addr,
         lp |-> heap_listp, fill |-> fill, st |-> "ok", fail |-> FALSE]

PreHeap == [w |-> pre.mem, lo |-> mem_heap, brk |-> pre.brk, max |-> mem_max_addr,
            lp |-> heap_listp, fill |-> fill, st |-> "ok", fail |-> FALSE]

Snapshot == [mem |-> mem, brk |-> mem_brk, live |-> live, op |-> call.op,
             size |-> call.size]

\* memlib's mem_init has run; mm_init has not
Init ==
    /\ mem = <<>>
    /\ mem_heap \in MemStarts
    /\ mem_brk = mem_heap
    /\ mem_max_addr \in {mem_heap + l : l \in HeapLimits}
    /\ heap_listp = NULL
    /\ fill \in Indeterminate
    /\ status = "uninit"
    /\ live = {}
    /\ call = [op |-> "none", ptr |-> NULL, size |-> 0, fail |-> FALSE, path |-> ""]
    /\ ret = 0
    /\ pre = [mem |-> <<>>, brk |-> mem_heap, live |-> {}, op |-> "none", size |-> 0]
    /\ ops = 0

\* the heap after a call that returned; a call that trapped or never returns
\* leaves a dead process, recorded with the heap as it was before the call
Commit(r, okstatus) ==
    /\ status' = IF r.st = "ok" THEN okstatus ELSE r.st
    /\ mem' = IF r.st = "ok" THEN r.w ELSE mem
    /\ mem_brk' = IF r.st = "ok" THEN r.brk ELSE mem_brk
    /\ heap_listp' = IF r.st = "ok" THEN r.lp ELSE heap_listp
    /\ pre' = Snapshot
    /\ UNCHANGED <<mem_heap, mem_max_addr, fill>>

\* r is what mm_init returned
InitDone(r) ==
    /\ Commit(r.h, IF r.ret = 0 THEN "ready" ELSE "initfail")
    /\ ret' = r.ret
    /\ call' = [op |-> "init", ptr |-> NULL, size |-> 0, fail |-> r.h.fail,
                path |-> ""]

MmInit ==
    /\ status = "uninit"
    /\ InitDone(mm_init(Heap))
    /\ UNCHANGED <<live, ops>>

\* r is what mm_malloc(size) returned
MallocDone(r, size) ==
    /\ Commit(r.h, "ready")
    /\ ret' = IF r.h.st = "ok" THEN r.ret ELSE NULL
    /\ live' = IF r.h.st = "ok" /\ r.ret # NULL THEN live \cup {r.ret} ELSE live
    /\ call' = [op |-> "malloc", ptr |-> NULL, size |-> size, fail |-> r.h.fail,
                path |-> ""]

MmMalloc(size) ==
    /\ status = "ready"
    /\ MallocDone(mm_malloc(Heap, size), size)
    /\ ops' = ops + 1

\* r is the heap mm_free(bp) left
FreeDone(r, bp) ==
    /\ Commit(r, "ready")
    /\ ret' = NULL
    /\ live' = IF r.st = "ok" THEN live \ {bp} ELSE live
    /\ call' = [op |-> "free", ptr |-> bp, size |-> GET_SIZE(Heap, HDRP(bp)),
                fail |-> r.fail, path |-> ""]

MmFree(bp) ==
    /\ status = "ready"
    /\ bp \in live
    /\ FreeDone(mm_free(Heap, bp), bp)
    /\ ops' = ops + 1

\* r is what mm_realloc(ptr, size) returned, rh its heap, or the trap
ReallocCommit(r, rh, ptr, size) ==
    /\ Commit(rh, "ready")
    /\ ret' = IF rh.st = "ok" THEN r.ret ELSE NULL
    /\ live' = IF rh.st # "ok" \/ r.path # "fallback" THEN live
               ELSE (live \ {ptr}) \cup (IF r.ret # NULL THEN {r.ret} ELSE {})
    /\ call' = [op |-> "realloc", ptr |-> ptr, size |-> size, fail |-> r.h.fail,
                path |-> r.path]

\* A store through the null pointer is undefined: the process traps, or the
\* store is lost and mm_realloc runs on.
ReallocDone(r, ptr, size) ==
    \/ ReallocCommit(r, r.h, ptr, size)
    \/ r.nullstore /\ ReallocCommit(r, [r.h EXCEPT !.st = "fault"], ptr, size)

MmRealloc(ptr, size) ==
    /\ status = "ready"
    /\ ptr \in live
    /\ ReallocDone(mm_realloc(Heap, ptr, size), ptr, size)
    /\ ops' = ops + 1

Next ==
    \/ MmInit
    \/ ops < MaxOps /\ \E size \in MallocSizes : MmMalloc(size)
    \/ ops < MaxOps /\ \E bp \in live : MmFree(bp)
    \/ ops < MaxOps /\ \E ptr \in live, size \in ReallocSizes : MmRealloc(ptr, size)

Spec == Init /\ [][Next]_vars

\* a longer run over fewer request sizes, under the largest heap limit
InitDeep == Init /\ mem_max_addr = mem_heap + DeepLimit

NextDeep ==
    \/ MmInit
    \/ ops < MaxOpsDeep /\ \E size \in DeepMallocSizes : MmMalloc(size)
    \/ ops < MaxOpsDeep /\ \E bp \in live : MmFree(bp)
    \/ ops < MaxOpsDeep /\ \E ptr \in live, size \in DeepReallocSizes : MmRealloc(ptr, size)

SpecDeep == InitDeep /\ [][NextDeep]_vars


(* ======================= observing the heap ======================= *)
Ready == status = "ready"

INIT_BYTES == (3 + MAXCLASS) * WSIZE

\* the block that follows the prologue
FirstBlock(h) == NEXT_BLKP(h, h.lp + ((1 + MAXCLASS) * WSIZE))

\* the blocks met when stepping from bp by header sizes, and where the walk stops
RECURSIVE Walk(_, _, _)
Walk(h, bp, acc) ==
    IF GET_SIZE(h, HDRP(bp)) <= 0 \/ HDRP(bp) >= h.brk
    THEN [blocks |-> acc, end |-> bp]
    ELSE Walk(h, NEXT_BLKP(h, bp), Append(acc, bp))

BlocksOf(h) == Walk(h, FirstBlock(h), <<>>)

Range(seq) == {seq[i] : i \in 1..Len(seq)}

IsFree(h, bp) == GET_ALLOC(h, HDRP(bp)) = 0

BlockEnd(h, bp) == HDRP(bp) + GET_SIZE(h, HDRP(bp))

\* the nodes of a list, followed through the successor words
RECURSIVE ListFrom(_, _, _)
ListFrom(h, bp, acc) ==
    IF bp = NULL \/ bp \in Range(acc) THEN acc
    ELSE ListFrom(h, SUCC(h, bp), Append(acc, bp))

Bucket(h, i) == ListFrom(h, GET(h, h.lp + i * WSIZE), <<>>)

ClassOf(size) == ClassLoop(size, 0).class_idx

Classes == 0..(MAXCLASS - 1)

ListNodes(h) == UNION {Range(Bucket(h, i)) : i \in Classes}

(* ======================= claims ======================= *)

\* C1: after init and any sequence of allocate/free/reallocate calls on valid
\* pointers, the byte ranges [header, footer] of any two live allocated blocks
\* are disjoint.
C1_NoOverlap ==
    Ready => \A p \in live : \A q \in live \ {p} :
                 \/ BlockEnd(Heap, p) <= HDRP(q)
                 \/ BlockEnd(Heap, q) <= HDRP(p)

\* C2: when reallocate grows a block in place it returns the same pointer, the
\* new header/footer size is the old size plus the size of the block that
\* follows it at the moment of absorption (the following block, enlarged by the
\* heap extension when it is the last block or the epilogue), the absorbed
\* block is in no free list, and no growth happens when old size plus the
\* following free size already suffices.
C2_OldSize == GET_SIZE(PreHeap, HDRP(call.ptr))
C2_Follow == NEXT_BLKP(PreHeap, call.ptr)
C2_FollowSize == GET_SIZE(PreHeap, HDRP(C2_Follow))
C2_FollowIsLast == HDRP(C2_Follow) + C2_FollowSize = pre.brk - WSIZE
C2_FollowSizeAtAbsorption ==
    IF C2_FollowIsLast THEN C2_FollowSize + (mem_brk - pre.brk) ELSE C2_FollowSize
C2_GrewInPlace ==
    /\ Ready
    /\ call.op = "realloc"
    /\ call.path = "inplace"
    /\ ~call.fail
C2_InPlaceGrowth ==
    C2_GrewInPlace =>
        /\ ret = call.ptr
        /\ GET_SIZE(Heap, HDRP(call.ptr)) = C2_OldSize + C2_FollowSizeAtAbsorption
        /\ GET(Heap, FTRP(Heap, call.ptr)) = GET(Heap, HDRP(call.ptr))
        /\ GET_ALLOC(Heap, HDRP(call.ptr)) = 1
        /\ C2_Follow \notin ListNodes(Heap)
        /\ (C2_OldSize + C2_FollowSize >= AdjustedSize(call.size) => mem_brk = pre.brk)

\* C3: after every public call no two physically adjacent blocks between the
\* prologue and the epilogue are both free.
C3_NoAdjacentFree ==
    Ready => LET b == BlocksOf(Heap).blocks
             IN \A i \in 1..(Len(b) - 1) : ~(IsFree(Heap, b[i]) /\ IsFree(Heap, b[i + 1]))

\* C4: after every public call every size class list is sorted in ascending
\* order of block size from head to tail.
C4_BucketsSorted ==
    Ready => \A c \in Classes :
                 LET l == Bucket(Heap, c)
                 IN \A i \in 1..(Len(l) - 1) :
                        GET_SIZE(Heap, HDRP(l[i])) <= GET_SIZE(Heap, HDRP(l[i + 1]))

\* C5: after every public call every free block of the heap is reachable from
\* exactly one size class list, the list of the class of its size, exactly
\* once, and nothing but free blocks of the heap is reachable from a list.
C5_FreeListsExact ==
    Ready => LET b == Range(BlocksOf(Heap).blocks)
             IN /\ \A bp \in b : IsFree(Heap, bp) =>
                       \A c \in Classes :
                           Cardinality({i \in 1..Len(Bucket(Heap, c)) : Bucket(Heap, c)[i] = bp})
                             = IF c = ClassOf(GET_SIZE(Heap, HDRP(bp))) THEN 1 ELSE 0
                /\ \A n \in ListNodes(Heap) : n \in b /\ IsFree(Heap, n)

\* C6: after every public call the walk by header sizes from the first block
\* reaches the epilogue header exactly, and the block sizes add up to the bytes
\* obtained from the growth primitive by heap extensions.
RECURSIVE SumSizes(_, _)
SumSizes(h, seq) ==
    IF seq = <<>> THEN 0 ELSE GET_SIZE(h, HDRP(Head(seq))) + SumSizes(h, Tail(seq))

C6_HeapTiled ==
    Ready => LET wk == BlocksOf(Heap)
             IN /\ HDRP(wk.end) = mem_brk - WSIZE
                /\ GET(Heap, HDRP(wk.end)) = PACK(0, 1)
                /\ SumSizes(Heap, wk.blocks) = mem_brk - mem_heap - INIT_BYTES

\* C7: if the growth primitive fails during reallocate, reallocate returns
\* null, stores nothing through a null pointer, and leaves the heap unchanged
\* with the original block still allocated.
C7_ReallocFailureIsNoop ==
    (call.op = "realloc" /\ call.fail) =>
        /\ Ready
        /\ ret = NULL
        /\ mem = pre.mem
        /\ mem_brk = pre.brk
        /\ call.ptr \in live
        /\ GET_ALLOC(Heap, HDRP(call.ptr)) = 1

\* C8: if the growth primitive fails during allocate, allocate returns null
\* and the heap blocks, their headers/footers and all lists are exactly as
\* before the call.
C8_MallocFailureIsNoop ==
    (call.op = "malloc" /\ call.fail) =>
        /\ Ready
        /\ ret = NULL
        /\ mem = pre.mem
        /\ mem_brk = pre.brk
        /\ live = pre.live

C8_Witness ==
    /\ Ready
    /\ call.op = "malloc"
    /\ call.fail
    /\ ret = NULL
    /\ live # {}
    /\ ListNodes(Heap) # {}

\* C9: free(p) immediately followed by allocate of a request with the same
\* adjusted size as p's block returns a pointer into space that was free just
\* before the allocate, and does not invoke the growth primitive.
C9_FreeThenSameSize ==
    /\ call.op = "malloc"
    /\ pre.op = "free"
    /\ call.size # 0
    /\ AdjustedSize(call.size) = pre.size

C9_ReuseAfterFree ==
    C9_FreeThenSameSize =>
        /\ Ready
        /\ ret # NULL
        /\ ~call.fail
        /\ mem_brk = pre.brk
        /\ \E b \in Range(BlocksOf(PreHeap).blocks) :
               /\ IsFree(PreHeap, b)
               /\ HDRP(b) <= HDRP(ret)
               /\ HDRP(ret) + AdjustedSize(call.size) <= BlockEnd(PreHeap, b)

\* C10: every non-null pointer returned by allocate or reallocate is a multiple
\* of 8, given that the first address of the region is 8-byte aligned.
C10_Aligned ==
    (Ready /\ call.op \in {"malloc", "realloc"} /\ ret # NULL) =>
        (mem_heap % ALIGNMENT = 0 => ret % ALIGNMENT = 0)

C10_Witness ==
    /\ Ready
    /\ call.op = "realloc"
    /\ call.path = "fallback"
    /\ ret # NULL
    /\ ret # call.ptr
    /\ mem_heap % ALIGNMENT = 0

\* C11: after every public call every block between the prologue and the
\* epilogue, free or allocated, and every block the caller holds, has a size
\* that is a multiple of 8 and at least 16 bytes; its header word carries
\* nothing but that size and the allocated bit.
C11_Blocks == Range(BlocksOf(Heap).blocks) \cup live

C11_BlockSizes ==
    Ready => \A bp \in C11_Blocks :
                 /\ GET_SIZE(Heap, HDRP(bp)) % ALIGNMENT = 0
                 /\ GET_SIZE(Heap, HDRP(bp)) >= 2 * DSIZE
                 /\ GET(Heap, HDRP(bp)) - GET_SIZE(Heap, HDRP(bp)) \in {0, 1}

\* C12: reallocate(p, 0) returns null and changes nothing: p's block is still
\* held by the caller with the same header, and the heap, its break and all
\* lists are as before the call.
C12_ZeroCall == call.op = "realloc" /\ call.size = 0

C12_ReallocZeroIsNoop ==
    C12_ZeroCall =>
        /\ Ready
        /\ call.path = "zero"
        /\ ret = NULL
        /\ mem = pre.mem
        /\ mem_brk = pre.brk
        /\ live = pre.live
        /\ call.ptr \in live
        /\ GET(Heap, HDRP(call.ptr)) = GET(PreHeap, HDRP(call.ptr))

C12_Witness ==
    /\ C12_ZeroCall
    /\ Ready
    /\ ret = NULL
    /\ call.ptr \in live
    /\ GET_ALLOC(Heap, HDRP(call.ptr)) = 1
    /\ ListNodes(Heap) # {}

\* C13: if the adjusted new size is at most the current size of p's block,
\* reallocate(p, newSize) returns p and leaves the whole heap unchanged: no
\* split, no free list change, no heap growth.
C13_FitsCall ==
    /\ call.op = "realloc"
    /\ call.size # 0
    /\ AdjustedSize(call.size) <= GET_SIZE(PreHeap, HDRP(call.ptr))

C13_ReallocFitsIsNoop ==
    C13_FitsCall =>
        /\ Ready
        /\ call.path = "fits"
        /\ ret = call.ptr
        /\ mem = pre.mem
        /\ mem_brk = pre.brk
        /\ live = pre.live

\* the adjusted size equals the block size, and is smaller than it
C13_Witness ==
    /\ C13_FitsCall
    /\ Ready
    /\ ret = call.ptr
    /\ AdjustedSize(call.size) = GET_SIZE(Heap, HDRP(call.ptr))

C13_WitnessSmaller ==
    /\ C13_FitsCall
    /\ Ready
    /\ AdjustedSize(call.size) < GET_SIZE(Heap, HDRP(call.ptr))

\* C14: allocate invokes the growth primitive only when no free block of size
\* at least the adjusted request is in the free lists; when there is one, also
\* for adjusted sizes of 2^15 and more, the block returned lies in a block that
\* was free and large enough before the call.
C14_FitsBefore ==
    {b \in ListNodes(PreHeap) :
        IsFree(PreHeap, b) /\ GET_SIZE(PreHeap, HDRP(b)) >= AdjustedSize(call.size)}

C14_FitExists ==
    /\ call.op = "malloc"
    /\ call.size # 0
    /\ C14_FitsBefore # {}

C14_GrowthOnlyWithoutFit ==
    C14_FitExists =>
        /\ Ready
        /\ ~call.fail
        /\ mem_brk = pre.brk
        /\ \E b \in C14_FitsBefore :
               /\ HDRP(b) <= HDRP(ret)
               /\ HDRP(ret) + AdjustedSize(call.size) <= BlockEnd(PreHeap, b)

\* C15: free(p) produces exactly one free block whose span is p's block plus
\* each physically adjacent neighbour that was free, whose size is the sum of
\* the merged sizes, which starts at the previous block when that was free,
\* and which is in the list of its size class, while a merged following block
\* is in no list any more.
C15_Before == BlocksOf(PreHeap).blocks
C15_Pos == IF call.ptr \in Range(C15_Before)
           THEN CHOOSE i \in 1..Len(C15_Before) : C15_Before[i] = call.ptr
           ELSE 0
C15_PrevFree == C15_Pos > 1 /\ IsFree(PreHeap, C15_Before[C15_Pos - 1])
C15_NextFree == C15_Pos < Len(C15_Before) /\ IsFree(PreHeap, C15_Before[C15_Pos + 1])
C15_Start == IF C15_PrevFree THEN C15_Before[C15_Pos - 1] ELSE call.ptr
C15_Size ==
    GET_SIZE(PreHeap, HDRP(call.ptr))
    + (IF C15_PrevFree THEN GET_SIZE(PreHeap, HDRP(C15_Before[C15_Pos - 1])) ELSE 0)
    + (IF C15_NextFree THEN GET_SIZE(PreHeap, HDRP(C15_Before[C15_Pos + 1])) ELSE 0)

C15_FreeCall == call.op = "free"

C15_FreeCoalesces ==
    C15_FreeCall =>
        /\ Ready
        /\ C15_Pos > 0
        /\ GET(Heap, HDRP(C15_Start)) = PACK(C15_Size, 0)
        /\ GET(Heap, FTRP(Heap, C15_Start)) = PACK(C15_Size, 0)
        /\ C15_Start \in Range(BlocksOf(Heap).blocks)
        /\ \A b \in Range(BlocksOf(Heap).blocks) :
               (b # C15_Start /\ IsFree(Heap, b)) =>
                   (BlockEnd(Heap, b) < HDRP(C15_Start) \/ HDRP(b) > BlockEnd(Heap, C15_Start))
        /\ Cardinality({i \in 1..Len(Bucket(Heap, ClassOf(C15_Size))) :
                           Bucket(Heap, ClassOf(C15_Size))[i] = C15_Start}) = 1
        /\ call.ptr # C15_Start => call.ptr \notin ListNodes(Heap)
        /\ C15_NextFree => C15_Before[C15_Pos + 1] \notin ListNodes(Heap)

\* C16: place(block, asize), with remainder = block size - asize: if the
\* remainder is below 16 the whole block becomes allocated with its original
\* size; else if asize < 96 the allocated piece of size asize is at the low
\* address and the free remainder behind it; else the free remainder is at the
\* low address and the allocated piece of size asize behind it; the input block
\* leaves its list, allocated size + remainder = original size, and a
\* remainder is in the list of its size class.  Observed after every allocate
\* that returned a block: the block handed to place is the one find_fit found
\* before the call or, when the heap grew, the one extend_heap returned.
C16_asize == AdjustedSize(call.size)
C16_Grew == mem_brk # pre.brk
C16_Extended == extend_heap(PreHeap, MAX(C16_asize, CHUNKSIZE))
\* the heap and the block that place received
C16_Heap == IF C16_Grew THEN C16_Extended.h ELSE PreHeap
C16_Block == IF C16_Grew THEN C16_Extended.bp ELSE find_fit(PreHeap, C16_asize).bp
C16_csize == GET_SIZE(C16_Heap, HDRP(C16_Block))
C16_remain == C16_csize - C16_asize

C16_InClassList(bp, size) ==
    Cardinality({i \in 1..Len(Bucket(Heap, ClassOf(size))) :
                    Bucket(Heap, ClassOf(size))[i] = bp}) = 1

C16_IsBlock(bp, size, alloc) ==
    /\ GET(Heap, HDRP(bp)) = PACK(size, alloc)
    /\ GET(Heap, bp + size - DSIZE) = PACK(size, alloc)

C16_Placed == call.op = "malloc" /\ Ready /\ ret # NULL

C16_Whole == C16_Placed /\ C16_remain < 2 * DSIZE
C16_Low == C16_Placed /\ C16_remain >= 2 * DSIZE /\ C16_asize < SPLIT_LOW_LIMIT
C16_High == C16_Placed /\ C16_remain >= 2 * DSIZE /\ C16_asize >= SPLIT_LOW_LIMIT

C16_PlaceCases ==
    /\ C16_Placed => /\ C16_Block \in ListNodes(C16_Heap)
                     /\ C16_remain >= 0
    /\ C16_Whole => /\ ret = C16_Block
                    /\ C16_IsBlock(ret, C16_csize, 1)
                    /\ C16_Block \notin ListNodes(Heap)
    /\ C16_Low => /\ ret = C16_Block
                  /\ C16_IsBlock(ret, C16_asize, 1)
                  /\ C16_IsBlock(ret + C16_asize, C16_remain, 0)
                  /\ C16_InClassList(ret + C16_asize, C16_remain)
                  /\ C16_Block \notin ListNodes(Heap)
    /\ C16_High => /\ ret = C16_Block + C16_remain
                   /\ C16_IsBlock(ret, C16_asize, 1)
                   /\ C16_IsBlock(C16_Block, C16_remain, 0)
                   /\ C16_InClassList(C16_Block, C16_remain)
                   /\ ret \notin ListNodes(Heap)

\* a large request split off the high end of a block found in a list, a small
\* one split off the low end, and an exact fit
C16_Witness == C16_High /\ ~C16_Grew /\ C16_IsBlock(C16_Block, C16_remain, 0)
C16_WitnessLow == C16_Low /\ C16_IsBlock(ret + C16_asize, C16_remain, 0)
C16_WitnessWhole == C16_Whole /\ C16_IsBlock(ret, C16_csize, 1)
C16_WitnessGrew == C16_High /\ C16_Grew

\* C17: after every public call every block's footer word equals its header
\* word, for the blocks between the prologue and the epilogue and for the
\* blocks the caller holds, so stepping backward by the footer size from a
\* block lands on the physically preceding block.
C17_FootersMatch ==
    Ready => LET b == BlocksOf(Heap).blocks
             IN /\ \A bp \in Range(b) \cup live :
                       GET(Heap, FTRP(Heap, bp)) = GET(Heap, HDRP(bp))
                /\ \A i \in 1..(Len(b) - 1) : PREV_BLKP(Heap, b[i + 1]) = b[i]

\* C18: after every public call each size class list is a well-formed acyclic
\* doubly-linked list: the head's predecessor is null, the tail's successor is
\* null, and the predecessor of every node's successor is that node; hence no
\* list traversal of a call runs forever.
C18_ListWellFormed(l) ==
    /\ l # <<>> => /\ PRED(Heap, l[1]) = NULL
                   /\ SUCC(Heap, l[Len(l)]) = NULL
    /\ \A i \in 1..(Len(l) - 1) : PRED(Heap, l[i + 1]) = l[i]

C18_ListsWellFormed ==
    /\ status # "hang"
    /\ Ready => \A c \in Classes : C18_ListWellFormed(Bucket(Heap, c))

\* C19: on reallocate's fallback path, when the allocation succeeds, the
\* number of bytes copied from the old pointer (the size in the old block's
\* header) never exceeds the payload capacity (block size minus 8) of the new
\* block; afterwards the old block lies in a free block of the free lists and
\* the new pointer is returned.
C19_Moved ==
    /\ call.op = "realloc"
    /\ call.path = "fallback"
    /\ Ready
    /\ ret # NULL

\* the heap when memcpy runs, and its third argument
C19_AtCopy == mm_malloc(PreHeap, AdjustedSize(call.size)).h
C19_Copied == GET_SIZE(C19_AtCopy, HDRP(call.ptr))

C19_CopyFits ==
    C19_Moved =>
        /\ ret # call.ptr
        /\ ret \in live
        /\ call.ptr \notin live
        /\ C19_Copied = GET_SIZE(PreHeap, HDRP(call.ptr))
        /\ GET_ALLOC(Heap, HDRP(ret)) = 1
        /\ C19_Copied <= GET_SIZE(C19_AtCopy, HDRP(ret)) - DSIZE
        /\ C19_Copied <= GET_SIZE(Heap, HDRP(ret)) - DSIZE
        /\ \E b \in ListNodes(Heap) :
               /\ IsFree(Heap, b)
               /\ HDRP(b) <= HDRP(call.ptr)
               /\ HDRP(call.ptr) + C19_Copied <= BlockEnd(Heap, b)

====
